---- MODULE Spec2Model ----
(***************************************************************************)
(* A model of pid-rs (src/src/lib.rs): the Proportional, Integrator and    *)
(* Differentiator terms and the Controller that owns one of each.          *)
(*                                                                         *)
(* Scalars.  The code is generic over T: Float, instantiated at f32 and    *)
(* f64.  A scalar is modelled as a pair <<n, d>>:                          *)
(*     d > 0   the finite value n/d, in lowest terms;                      *)
(*     d = 0   a non-finite value: <<1,0>> is +inf, <<-1,0>> is -inf and   *)
(*             <<0,0>> is NaN.                                             *)
(* The operators FAdd, FSub, FMul, FDiv, FLt, FGt follow IEEE-754 on the   *)
(* non-finite values (inf - inf = NaN, 0 * inf = NaN, x/0 = +-inf,         *)
(* 0/0 = NaN, every comparison with NaN false).  On finite values they are *)
(* exact; the inputs the specifications draw are dyadic rationals chosen   *)
(* so that every finite intermediate value is a dyadic rational with a     *)
(* small numerator (the predicate ExactlyRepresentable states this of the  *)
(* stored values), so f32 and f64 compute them without rounding.  The sign *)
(* of zero is not modelled: -0.0 and 0.0 compare equal in the code, and    *)
(* the only divisor that can be zero, 2*time_constant + seconds, is +0.0   *)
(* whenever it is zero because seconds is never negative.                  *)
(***************************************************************************)
EXTENDS Integers, Sequences, FiniteSets, TLC

VARIABLES
    p,          \* a stand-alone Proportional
    i,          \* a stand-alone Integrator
    d,          \* a stand-alone Differentiator
    c,          \* a Controller with its three owned terms
    calls,      \* the update calls made since construction or the last init
    reinit      \* whether some init has been called after an update call

vars == <<p, i, d, c, calls, reinit>>

---------------------------------------------------------------------------
(* Scalar arithmetic *)

Abs(n) == IF n < 0 THEN -n ELSE n

Sign(n) == IF n < 0 THEN -1 ELSE IF n > 0 THEN 1 ELSE 0

RECURSIVE GCD(_, _)
GCD(a, b) == IF b = 0 THEN a ELSE GCD(b, a % b)

\* The scalar n/d: lowest terms for d # 0, the signed infinity or NaN for d = 0.
Mk(n, dd) ==
    IF dd = 0 THEN <<Sign(n), 0>>
    ELSE LET g == GCD(Abs(n), Abs(dd))
         IN  <<(Sign(dd) * Sign(n)) * (Abs(n) \div g), Abs(dd) \div g>>

NaN == <<0, 0>>
PosInf == <<1, 0>>
NegInf == <<-1, 0>>

IsNaN(x) == x = NaN
IsInf(x) == x[2] = 0 /\ x[1] # 0
IsFinite(x) == x[2] > 0

FNeg(x) == <<-x[1], x[2]>>

FAdd(x, y) ==
    IF IsNaN(x) \/ IsNaN(y) THEN NaN
    ELSE IF IsInf(x) THEN (IF IsInf(y) /\ y # x THEN NaN ELSE x)
    ELSE IF IsInf(y) THEN y
    ELSE Mk(x[1] * y[2] + y[1] * x[2], x[2] * y[2])

FSub(x, y) == FAdd(x, FNeg(y))

FMul(x, y) == Mk(x[1] * y[1], x[2] * y[2])

FDiv(x, y) ==
    IF IsNaN(x) \/ IsNaN(y) THEN NaN
    ELSE IF IsInf(y) THEN (IF IsInf(x) THEN NaN ELSE <<0, 1>>)
    ELSE IF IsInf(x) THEN (IF y[1] < 0 THEN FNeg(x) ELSE x)
    ELSE Mk(x[1] * y[2], x[2] * y[1])

FLt(x, y) ==
    /\ ~IsNaN(x)
    /\ ~IsNaN(y)
    /\ x # y
    /\ IF IsInf(x) THEN x[1] < 0
       ELSE IF IsInf(y) THEN y[1] > 0
       ELSE x[1] * y[2] < y[1] * x[2]

FGt(x, y) == FLt(y, x)

\* impl Float: the named constants
negative == <<-1, 1>>
double == <<2, 1>>
half == <<1, 2>>
one == <<1, 1>>
zero == <<0, 1>>

\* A Duration is modelled by its length in milliseconds; the conversion is
\* Duration::as_secs_f32 / as_secs_f64.
from_duration(dur) == Mk(dur, 1000)

---------------------------------------------------------------------------
(* The terms and the controller, as pure functions of the object's fields *)

Range(start, end) == [start |-> start, end |-> end]

Proportional_new(gain) == [gain |-> gain]

Proportional_init(self) == self

\* Mutant: the error taken with the wrong sign, measurement - setpoint.
Proportional_update_reversed(self, setpoint, measurement, sample_time) ==
    LET error == FSub(measurement, setpoint)
    IN  FMul(self.gain, error)

\* The value returned; the Proportional itself is not written.
Proportional_update(self, setpoint, measurement, sample_time) ==
    LET error == FSub(setpoint, measurement)
    IN  FMul(self.gain, error)

Integrator_new(gain, output_limit) ==
    [value |-> zero, gain |-> gain, previous_error |-> zero,
     output_limit |-> output_limit]

\* Mutant: the lower bound is never applied.
Integrator_clamp_value_noLower(self) ==
    IF FGt(self.value, self.output_limit.end)
    THEN [self EXCEPT !.value = self.output_limit.end]
    ELSE self

\* Mutant: the clamp is skipped for a range whose start exceeds its end.
Integrator_clamp_value_guarded(self) ==
    IF FGt(self.output_limit.start, self.output_limit.end) THEN self
    ELSE IF FGt(self.value, self.output_limit.end)
    THEN [self EXCEPT !.value = self.output_limit.end]
    ELSE IF FLt(self.value, self.output_limit.start)
    THEN [self EXCEPT !.value = self.output_limit.start]
    ELSE self

Integrator_clamp_value(self) ==
    IF FGt(self.value, self.output_limit.end)
    THEN [self EXCEPT !.value = self.output_limit.end]
    ELSE IF FLt(self.value, self.output_limit.start)
    THEN [self EXCEPT !.value = self.output_limit.start]
    ELSE self

\* Mutant: previous_error survives the reset.
Integrator_init_keepsError(self) ==
    [self EXCEPT !.value = zero]

Integrator_init(self) ==
    [self EXCEPT !.value = zero, !.previous_error = zero]

\* Mutant: rectangular integration, gain * seconds * error.
Integrator_accumulate_rectangular(self, setpoint, measurement, sample_time) ==
    LET error == FSub(setpoint, measurement)
        new_value == FMul(FMul(self.gain, from_duration(sample_time)), error)
    IN  [self EXCEPT !.value = FAdd(self.value, new_value)]

\* Lines 111-114 of update: the accumulator after the trapezoidal step and
\* before the clamp.
Integrator_accumulate(self, setpoint, measurement, sample_time) ==
    LET error == FSub(setpoint, measurement)
        new_value ==
            FMul(FMul(FMul(half, self.gain), from_duration(sample_time)),
                 FAdd(error, self.previous_error))
    IN  [self EXCEPT !.value = FAdd(self.value, new_value)]

\* The Integrator after update; the value returned is its .value
Integrator_update(self, setpoint, measurement, sample_time) ==
    LET error == FSub(setpoint, measurement)
        clamped ==
            Integrator_clamp_value(
                Integrator_accumulate(self, setpoint, measurement, sample_time))
    IN  [clamped EXCEPT !.previous_error = error]

Differentiator_new(gain, time_constant) ==
    [value |-> zero, gain |-> gain, time_constant |-> time_constant,
     previous_measurement |-> zero]

Differentiator_init(self) ==
    [self EXCEPT !.value = zero, !.previous_measurement = zero]

\* Mutant: previous_measurement is overwritten before the difference is taken.
Differentiator_update_stale(self, setpoint, measurement, sample_time) ==
    LET measurement_error == FSub(measurement, measurement)
        numerator ==
            FMul(negative,
                 FAdd(FMul(FMul(double, self.gain), measurement_error),
                      FMul(FSub(FMul(double, self.time_constant),
                                from_duration(sample_time)),
                           self.value)))
        denominator ==
            FAdd(FMul(double, self.time_constant), from_duration(sample_time))
    IN  [self EXCEPT !.previous_measurement = measurement,
                     !.value = FDiv(numerator, denominator)]

\* Mutant: the filter coefficient on the old value is not scaled down,
\* the old value is carried over with its sign flipped.
Differentiator_update_unfiltered(self, setpoint, measurement, sample_time) ==
    LET measurement_error == FSub(measurement, self.previous_measurement)
        denominator ==
            FAdd(FMul(double, self.time_constant), from_duration(sample_time))
        numerator ==
            FMul(negative,
                 FAdd(FMul(FMul(double, self.gain), measurement_error),
                      FMul(denominator, self.value)))
    IN  [self EXCEPT !.previous_measurement = measurement,
                     !.value = FDiv(numerator, denominator)]

\* The Differentiator after update; the value returned is its .value
Differentiator_update(self, setpoint, measurement, sample_time) ==
    LET measurement_error == FSub(measurement, self.previous_measurement)
        numerator ==
            FMul(negative,
                 FAdd(FMul(FMul(double, self.gain), measurement_error),
                      FMul(FSub(FMul(double, self.time_constant),
                                from_duration(sample_time)),
                           self.value)))
        denominator ==
            FAdd(FMul(double, self.time_constant), from_duration(sample_time))
    IN  [self EXCEPT !.previous_measurement = measurement,
                     !.value = FDiv(numerator, denominator)]

Controller_new(output_limit, sample_time, pp, ii, dd) ==
    [output_limit |-> output_limit, sample_time |-> sample_time,
     p |-> pp, i |-> ii, d |-> dd, out |-> zero]

\* Mutant: the differentiator is left out of the reset.
Controller_init_skipsD(self) ==
    [self EXCEPT !.p = Proportional_init(self.p),
                 !.i = Integrator_init(self.i),
                 !.out = zero]

Controller_init(self) ==
    [self EXCEPT !.p = Proportional_init(self.p),
                 !.i = Integrator_init(self.i),
                 !.d = Differentiator_init(self.d),
                 !.out = zero]

\* Mutant: the new sum is added onto the stored output.
Controller_sum_accumulating(self, setpoint, measurement) ==
    LET pv == Proportional_update(self.p, setpoint, measurement, self.sample_time)
        i2 == Integrator_update(self.i, setpoint, measurement, self.sample_time)
        d2 == Differentiator_update(self.d, setpoint, measurement, self.sample_time)
    IN  [self EXCEPT !.i = i2, !.d = d2,
                     !.out = FAdd(self.out, FAdd(FAdd(pv, i2.value), d2.value))]

\* Lines 191-194 of update: the three terms advanced and out = p + i + d,
\* before the clamp.
Controller_sum(self, setpoint, measurement) ==
    LET pv == Proportional_update(self.p, setpoint, measurement, self.sample_time)
        i2 == Integrator_update(self.i, setpoint, measurement, self.sample_time)
        d2 == Differentiator_update(self.d, setpoint, measurement, self.sample_time)
    IN  [self EXCEPT !.i = i2, !.d = d2,
                     !.out = FAdd(FAdd(pv, i2.value), d2.value)]

\* Mutant: the upper bound is compared but the output is left as it is.
Controller_clamp_noUpper(self) ==
    IF FGt(self.out, self.output_limit.end)
    THEN self
    ELSE IF FLt(self.out, self.output_limit.start)
    THEN [self EXCEPT !.out = self.output_limit.start]
    ELSE self

\* Lines 195-199 of update: the clamp of out.
Controller_clamp(self) ==
    IF FGt(self.out, self.output_limit.end)
    THEN [self EXCEPT !.out = self.output_limit.end]
    ELSE IF FLt(self.out, self.output_limit.start)
    THEN [self EXCEPT !.out = self.output_limit.start]
    ELSE self

\* The Controller after update; the value returned is its .out
Controller_update(self, setpoint, measurement) ==
    Controller_clamp(Controller_sum(self, setpoint, measurement))

---------------------------------------------------------------------------
(* Bounds and the inputs drawn *)

\* The most update calls made between two resets (new or init).
MaxCalls == 2

CanUpdate == Len(calls) < MaxCalls

\* The record kept of one update call: its arguments, the object before the
\* call, the value before the clamp (the value itself where nothing is
\* clamped) and the value returned.
Call(setpoint, measurement, sample_time, pre, unclamped, ret) ==
    [setpoint |-> setpoint, measurement |-> measurement,
     sample_time |-> sample_time, pre |-> pre, unclamped |-> unclamped,
     ret |-> ret]

LastCall == calls[Len(calls)]

\* Objects of the terms a specification leaves alone.
IdleP == Proportional_new(one)
IdleI == Integrator_new(one, Range(zero, zero))
IdleD == Differentiator_new(one, zero)
IdleC == Controller_new(Range(zero, zero), 0, IdleP, IdleI, IdleD)

\* Sample durations, in milliseconds.
Durations == {0, 500, 1000}

---------------------------------------------------------------------------
(* SpecP: a stand-alone Proportional *)

PGains == {<<1, 1>>, <<-2, 1>>, <<1, 2>>, PosInf}
PSetpoints == {<<0, 1>>, <<1, 1>>, <<-3, 2>>, PosInf}
PMeasurements == {<<0, 1>>, <<5, 2>>, NaN}

InitP ==
    /\ p \in {Proportional_new(g) : g \in PGains}
    /\ i = IdleI /\ d = IdleD /\ c = IdleC
    /\ calls = <<>>
    /\ reinit = FALSE

PInit ==
    /\ p' = Proportional_init(p)
    /\ calls' = <<>>
    /\ reinit' = (reinit \/ Len(calls) > 0)
    /\ UNCHANGED <<i, d, c>>

PUpdate ==
    /\ CanUpdate
    /\ \E setpoint \in PSetpoints, measurement \in PMeasurements,
          sample_time \in Durations :
          LET ret == Proportional_update(p, setpoint, measurement, sample_time)
          IN  calls' = Append(calls,
                  Call(setpoint, measurement, sample_time, p, ret, ret))
    /\ UNCHANGED <<p, i, d, c, reinit>>

NextP == PInit \/ PUpdate

SpecP == InitP /\ [][NextP]_vars

---------------------------------------------------------------------------
(* SpecI: a stand-alone Integrator *)

IGains == {<<1, 1>>, <<-2, 1>>, PosInf}
ILimits ==
    { Range(<<-100, 1>>, <<100, 1>>), Range(<<-1, 1>>, <<1, 1>>),
      Range(<<1, 1>>, <<3, 1>>), Range(<<2, 1>>, <<-2, 1>>) }
ISetpoints == {<<0, 1>>, <<1, 1>>, <<-2, 1>>, PosInf}
IMeasurements == {<<0, 1>>, <<1, 1>>, PosInf}
IDurations == {500, 1000}

InitI ==
    /\ i \in {Integrator_new(g, l) : g \in IGains, l \in ILimits}
    /\ p = IdleP /\ d = IdleD /\ c = IdleC
    /\ calls = <<>>
    /\ reinit = FALSE

IInit ==
    /\ i' = Integrator_init(i)
    /\ calls' = <<>>
    /\ reinit' = (reinit \/ Len(calls) > 0)
    /\ UNCHANGED <<p, d, c>>

IUpdate ==
    /\ CanUpdate
    /\ \E setpoint \in ISetpoints, measurement \in IMeasurements,
          sample_time \in IDurations :
          /\ i' = Integrator_update(i, setpoint, measurement, sample_time)
          /\ calls' = Append(calls,
                 Call(setpoint, measurement, sample_time, i,
                      Integrator_accumulate(i, setpoint, measurement,
                                            sample_time).value,
                      i'.value))
    /\ UNCHANGED <<p, d, c, reinit>>

NextI == IInit \/ IUpdate

SpecI == InitI /\ [][NextI]_vars

---------------------------------------------------------------------------
(* SpecD: a stand-alone Differentiator *)

DGains == {<<1, 1>>, <<-2, 1>>}
DTimeConstants == {<<0, 1>>, <<1, 2>>, <<3, 2>>, <<-1, 2>>}
DSetpoints == {<<0, 1>>, <<1, 1>>}
DMeasurements == {<<0, 1>>, <<1, 1>>, <<-2, 1>>, PosInf}

\* The divisor 2*time_constant + seconds(sample_time) is zero or, in
\* magnitude, a power of two: the sample times drawn are those for which the
\* quotient of two dyadic rationals is again one, so that the division is
\* exact in f32 and f64.
ExactDivisor(time_constant, sample_time) ==
    FAdd(FMul(double, time_constant), from_duration(sample_time))
        \in {<<0, 1>>, <<1, 1>>, <<-1, 1>>, <<2, 1>>, <<4, 1>>}

InitD ==
    /\ d \in {Differentiator_new(g, tc) : g \in DGains, tc \in DTimeConstants}
    /\ p = IdleP /\ i = IdleI /\ c = IdleC
    /\ calls = <<>>
    /\ reinit = FALSE

DInit ==
    /\ d' = Differentiator_init(d)
    /\ calls' = <<>>
    /\ reinit' = (reinit \/ Len(calls) > 0)
    /\ UNCHANGED <<p, i, c>>

DUpdate ==
    /\ CanUpdate
    /\ \E setpoint \in DSetpoints, measurement \in DMeasurements,
          sample_time \in Durations :
          /\ ExactDivisor(d.time_constant, sample_time)
          /\ d' = Differentiator_update(d, setpoint, measurement, sample_time)
          /\ calls' = Append(calls,
                 Call(setpoint, measurement, sample_time, d, d'.value,
                      d'.value))
    /\ UNCHANGED <<p, i, c, reinit>>

NextD == DInit \/ DUpdate

SpecD == InitD /\ [][NextD]_vars

---------------------------------------------------------------------------
(* SpecC: a Controller *)

CLimits == { Range(<<-10, 1>>, <<10, 1>>), Range(<<3, 1>>, <<-3, 1>>) }
CSampleTimes == {0, 1000}
CPGains == {<<1, 1>>, <<-2, 1>>}
CIGains == {<<1, 1>>}
CILimits ==
    { Range(<<-100, 1>>, <<100, 1>>), Range(<<-1, 1>>, <<1, 1>>),
      Range(<<2, 1>>, <<-2, 1>>) }
CDGains == {<<1, 1>>}
CTimeConstants == {<<0, 1>>, <<3, 2>>}
CSetpoints == {<<0, 1>>, <<1, 1>>, <<20, 1>>, PosInf}
CMeasurements == {<<0, 1>>, <<-2, 1>>}

InitC ==
    /\ c \in { Controller_new(l, st, Proportional_new(pg),
                              Integrator_new(ig, il),
                              Differentiator_new(dg, tc)) :
               l \in CLimits,
               st \in {x \in CSampleTimes :
                          \E t \in CTimeConstants : ExactDivisor(t, x)},
               pg \in CPGains, ig \in CIGains, il \in CILimits,
               dg \in CDGains,
               tc \in CTimeConstants }
    /\ ExactDivisor(c.d.time_constant, c.sample_time)
    /\ p = IdleP /\ i = IdleI /\ d = IdleD
    /\ calls = <<>>
    /\ reinit = FALSE

CInit ==
    /\ c' = Controller_init(c)
    /\ calls' = <<>>
    /\ reinit' = (reinit \/ Len(calls) > 0)
    /\ UNCHANGED <<p, i, d>>

CUpdate ==
    /\ CanUpdate
    /\ \E setpoint \in CSetpoints, measurement \in CMeasurements :
          /\ c' = Controller_update(c, setpoint, measurement)
          /\ calls' = Append(calls,
                 Call(setpoint, measurement, c.sample_time, c,
                      Controller_sum(c, setpoint, measurement).out, c'.out))
    /\ UNCHANGED <<p, i, d, reinit>>

NextC == CInit \/ CUpdate

SpecC == InitC /\ [][NextC]_vars

---------------------------------------------------------------------------
(* Vocabulary of the properties *)

FLe(x, y) == FLt(x, y) \/ (~IsNaN(x) /\ x = y)

FAbs(x) == <<Abs(x[1]), x[2]>>

WellFormed(r) == FLe(r.start, r.end)
Malformed(r) == FGt(r.start, r.end)
InRange(x, r) == FLe(r.start, x) /\ FLe(x, r.end)

\* The clamp of x into r as both clamps of the code decide it.
ClampTo(x, r) ==
    IF FGt(x, r.end) THEN r.end ELSE IF FLt(x, r.start) THEN r.start ELSE x

Called == calls # <<>>
CallIndices == 1..Len(calls)

\* The object as the k-th call since the reset left it.
After(k, now) == IF k = Len(calls) THEN now ELSE calls[k + 1].pre

\* Every finite value stored is a dyadic rational with a numerator below
\* 2^24, which f32 and f64 both hold exactly.
Dyadic(x) ==
    IsFinite(x) => (x[2] \in {2 ^ k : k \in 0..12} /\ Abs(x[1]) < 2 ^ 24)

ExactlyRepresentable ==
    /\ Dyadic(i.value) /\ Dyadic(i.previous_error)
    /\ Dyadic(d.value) /\ Dyadic(d.previous_measurement)
    /\ Dyadic(c.i.value) /\ Dyadic(c.i.previous_error)
    /\ Dyadic(c.d.value) /\ Dyadic(c.d.previous_measurement)
    /\ Dyadic(c.out)
    /\ \A k \in CallIndices : Dyadic(calls[k].ret) /\ Dyadic(calls[k].unclamped)

---------------------------------------------------------------------------
(* Integrator: C1, C4, C8 (checked under SpecI) *)

\* C1 as stated: with start <= end, the value every Integrator.update
\* returns is the stored accumulated value and lies within
\* [output_limit.start, output_limit.end].
C1_Original ==
    (Called /\ WellFormed(i.output_limit)) =>
        /\ LastCall.ret = i.value
        /\ InRange(i.value, i.output_limit)

\* C1 amended: with start <= end, the value every Integrator.update returns
\* is the stored accumulated value, is never above output_limit.end and never
\* below output_limit.start, and lies within the limit whenever the unclamped
\* trapezoidal sum is not NaN; a NaN sum is stored and returned as NaN.
C1_AntiWindup ==
    (Called /\ WellFormed(i.output_limit)) =>
        /\ LastCall.ret = i.value
        /\ ~FGt(i.value, i.output_limit.end)
        /\ ~FLt(i.value, i.output_limit.start)
        /\ ~IsNaN(LastCall.unclamped) => InRange(i.value, i.output_limit)
        /\ IsNaN(LastCall.unclamped) => IsNaN(i.value)

\* The unclamped sum left the limit on either side and the clamp brought it
\* back to the bound.
C1_Witness ==
    /\ Len(calls) = 2
    /\ WellFormed(i.output_limit)
    /\ FGt(calls[1].unclamped, i.output_limit.end)
    /\ calls[1].ret = i.output_limit.end
    /\ FLt(calls[2].unclamped, i.output_limit.start)
    /\ i.value = i.output_limit.start

\* The calls since the reset all had zero error.
ZeroErrorCalls ==
    \A k \in CallIndices : FSub(calls[k].setpoint, calls[k].measurement) = zero

\* C4 as stated: from a reset, for any gain, any output_limit and any sample
\* time, update(s, s, dt) called any number of times returns zero on every
\* call and leaves the accumulated value at zero.
C4_Original ==
    (Called /\ ZeroErrorCalls) =>
        /\ i.value = zero
        /\ \A k \in CallIndices : calls[k].ret = zero

\* C4 amended: from a reset, for a gain and sample time whose product
\* half * gain * seconds(dt) is finite and an output_limit that contains zero
\* (start <= 0 <= end), update(s, s, dt) with zero error called any number of
\* times returns zero on every call and leaves the accumulated value at zero.
C4_IdempotentZero ==
    ( /\ Called
      /\ ZeroErrorCalls
      /\ InRange(zero, i.output_limit)
      /\ \A k \in CallIndices :
            IsFinite(FMul(FMul(half, i.gain),
                          from_duration(calls[k].sample_time))) )
    => /\ i.value = zero
       /\ i.previous_error = zero
       /\ \A k \in CallIndices : calls[k].ret = zero

\* Two zero-error calls at a non-zero setpoint after an init that followed
\* an update, with the accumulator still at zero.
C4_Witness ==
    /\ reinit
    /\ Len(calls) = 2
    /\ ZeroErrorCalls
    /\ calls[1].setpoint = <<1, 1>>
    /\ calls[2].setpoint = <<1, 1>>
    /\ InRange(zero, i.output_limit)
    /\ i.gain = <<-2, 1>>
    /\ i.value = zero

\* pre.value + half * gain * seconds * ((s - m) + pre.previous_error) == u,
\* for finite operands, stated on the numerators and denominators.
TrapezoidalSum(pre, s, m, dur, u) ==
    LET err_n == s[1] * m[2] - m[1] * s[2]
        err_d == s[2] * m[2]
        sum_n == err_n * pre.previous_error[2] + pre.previous_error[1] * err_d
        sum_d == err_d * pre.previous_error[2]
        inc_n == pre.gain[1] * dur * sum_n
        inc_d == 2 * pre.gain[2] * 1000 * sum_d
        u_n == pre.value[1] * inc_d + inc_n * pre.value[2]
        u_d == pre.value[2] * inc_d
    IN  IsFinite(u) /\ u[1] * u_d = u_n * u[2]

AllFinite(S) == \A x \in S : IsFinite(x)

\* The k-th call was one trapezoidal step.
C8_Step(k) ==
    LET cl == calls[k]
        pre == cl.pre
        error == FSub(cl.setpoint, cl.measurement)
        post == After(k, i)
    IN  /\ IF AllFinite({cl.setpoint, cl.measurement, pre.gain, pre.value,
                         pre.previous_error})
           THEN TrapezoidalSum(pre, cl.setpoint, cl.measurement,
                               cl.sample_time, cl.unclamped)
           ELSE cl.unclamped =
                    FAdd(pre.value,
                         FMul(FMul(FMul(half, pre.gain),
                                   from_duration(cl.sample_time)),
                              FAdd(error, pre.previous_error)))
        /\ cl.ret = ClampTo(cl.unclamped, pre.output_limit)
        /\ post.value = cl.ret
        /\ post.previous_error = error
        /\ post.gain = pre.gain
        /\ post.output_limit = pre.output_limit

\* The literal case: gain 1, limit [-100, 100], update(1, 0, 1s) twice.
C8_LiteralCase ==
    /\ Len(calls) >= 2
    /\ i.gain = <<1, 1>>
    /\ i.output_limit = Range(<<-100, 1>>, <<100, 1>>)
    /\ \A k \in 1..2 :
          /\ calls[k].setpoint = <<1, 1>>
          /\ calls[k].measurement = <<0, 1>>
          /\ calls[k].sample_time = 1000

\* C8: Integrator.update(s, m, dt) returns and stores
\* clamp(accumulated_value + half * gain * seconds(dt) * (error +
\* previous_error)) with error = s - m, and sets previous_error to error;
\* from a reset with gain 1, limit [-100, 100] and dt 1s, two update(1, 0, 1s)
\* calls return 0.5 and then 1.5.
C8_TrapezoidalStep ==
    /\ \A k \in CallIndices : C8_Step(k)
    /\ C8_LiteralCase => (calls[1].ret = <<1, 2>> /\ calls[2].ret = <<3, 2>>)

\* The literal case has run and returned 0.5 and then 1.5.
C8_Witness ==
    /\ Len(calls) = 2
    /\ C8_LiteralCase
    /\ calls[1].ret = <<1, 2>>
    /\ i.value = <<3, 2>>
    /\ i.previous_error = <<1, 1>>

---------------------------------------------------------------------------
(* Differentiator: C5, C9 (checked under SpecD) *)

\* The k-th call repeats the measurement of the call before it.
SteadyCall(k) == k >= 2 /\ calls[k].measurement = calls[k - 1].measurement

CloserToZero(x, y) == FLt(FAbs(x), FAbs(y))

\* Every call since the reset, up to the k-th, had a sample time above zero
\* and a finite measurement.
RegularCalls(k) ==
    \A j \in 1..k : calls[j].sample_time > 0 /\ IsFinite(calls[j].measurement)

\* C5 as stated: with time_constant >= 0 and sample_time > 0, every update
\* that repeats the previous call's (finite) measurement yields a value
\* strictly closer to zero than the value before it, unless that value is
\* zero.
C5_Original ==
    \A k \in CallIndices :
        ( /\ SteadyCall(k)
          /\ FLe(zero, d.time_constant)
          /\ RegularCalls(k) )
        => \/ calls[k].pre.value = zero
           \/ CloserToZero(calls[k].ret, calls[k].pre.value)

\* C5 amended: with time_constant > 0 (strictly), sample_time > 0, a finite
\* gain, a finite measurement and a finite previous value, in exact
\* arithmetic, every update that repeats the previous call's measurement
\* yields a value strictly closer to zero than the value before it, and zero
\* when that value is zero.  With time_constant = 0 the value is repeated
\* unchanged.
C5_ZeroRate ==
    \A k \in CallIndices :
        ( /\ SteadyCall(k)
          /\ calls[k].sample_time > 0
          /\ IsFinite(d.gain)
          /\ IsFinite(calls[k].measurement)
          /\ IsFinite(calls[k].pre.value) )
        => /\ FGt(d.time_constant, zero) =>
                IF calls[k].pre.value = zero
                THEN calls[k].ret = zero
                ELSE CloserToZero(calls[k].ret, calls[k].pre.value)
           /\ d.time_constant = zero => calls[k].ret = calls[k].pre.value

\* A steady second call at time_constant 3/2 and 1s that halved a non-zero
\* value.
C5_Witness ==
    /\ Len(calls) = 2
    /\ SteadyCall(2)
    /\ d.time_constant = <<3, 2>>
    /\ calls[2].sample_time = 1000
    /\ calls[2].pre.value = <<-1, 2>>
    /\ d.value = <<1, 4>>

\* -(2 * gain * (m - pre.previous_measurement)
\*   + (2 * time_constant - seconds) * pre.value) / (2 * time_constant + seconds)
\* == r, for finite operands and a non-zero divisor, stated on the numerators
\* and denominators.
FilteredDerivative(pre, m, dur, r) ==
    LET delta_n == m[1] * pre.previous_measurement[2]
                       - pre.previous_measurement[1] * m[2]
        delta_d == m[2] * pre.previous_measurement[2]
        a_n == 2 * pre.gain[1] * delta_n
        a_d == pre.gain[2] * delta_d
        b_n == (2 * pre.time_constant[1] * 1000 - dur * pre.time_constant[2])
                   * pre.value[1]
        b_d == pre.time_constant[2] * 1000 * pre.value[2]
        num_n == -(a_n * b_d + b_n * a_d)
        num_d == a_d * b_d
        den_n == 2 * pre.time_constant[1] * 1000 + dur * pre.time_constant[2]
        den_d == pre.time_constant[2] * 1000
    IN  IsFinite(r) /\ r[1] * num_d * den_n = num_n * den_d * r[2]

\* The k-th call computed the filtered derivative from the state before it.
C9_Step(k) ==
    LET cl == calls[k]
        pre == cl.pre
        post == After(k, d)
        seconds == from_duration(cl.sample_time)
        divisor == FAdd(FMul(double, pre.time_constant), seconds)
    IN  /\ IF AllFinite({cl.measurement, pre.gain, pre.value,
                         pre.previous_measurement, pre.time_constant})
              /\ divisor # zero
           THEN FilteredDerivative(pre, cl.measurement, cl.sample_time, cl.ret)
           ELSE cl.ret =
                    FDiv(FMul(negative,
                              FAdd(FMul(FMul(double, pre.gain),
                                        FSub(cl.measurement,
                                             pre.previous_measurement)),
                                   FMul(FSub(FMul(double, pre.time_constant),
                                             seconds),
                                        pre.value))),
                         divisor)
        /\ post.value = cl.ret
        /\ post.previous_measurement = cl.measurement
        /\ post.gain = pre.gain
        /\ post.time_constant = pre.time_constant
        /\ \A sp \in DSetpoints \cup {PosInf, NaN} :
              Differentiator_update(pre, sp, cl.measurement, cl.sample_time)
                  = post

\* The literal case: gain 1, time_constant 0, a first update(_, 1, 1s).
C9_LiteralCase ==
    /\ Called
    /\ d.gain = <<1, 1>>
    /\ d.time_constant = zero
    /\ calls[1].measurement = <<1, 1>>
    /\ calls[1].sample_time = 1000

\* C9: Differentiator.update(setpoint, m, dt) returns and stores
\* -(2 * gain * (m - previous_measurement) + (2 * time_constant - seconds(dt))
\* * value) / (2 * time_constant + seconds(dt)), from the previous_measurement
\* and value held before the call, and sets previous_measurement to m; the
\* result and the new state are the same for every setpoint; from a reset with
\* gain 1, time_constant 0 and dt 1s, update(_, 1, 1s) returns -2.
C9_FilteredDerivative ==
    /\ \A k \in CallIndices : C9_Step(k)
    /\ C9_LiteralCase => calls[1].ret = <<-2, 1>>

\* The literal case has run with a non-zero setpoint and returned -2, after
\* an init that followed an earlier update.
C9_Witness ==
    /\ reinit
    /\ Len(calls) = 1
    /\ C9_LiteralCase
    /\ calls[1].setpoint = <<1, 1>>
    /\ d.value = <<-2, 1>>
    /\ d.previous_measurement = <<1, 1>>

---------------------------------------------------------------------------
(* Proportional: C6 (checked under SpecP) *)

\* gain * (s - m) == r, for finite operands, stated on the numerators and
\* denominators.
ScaledError(gain, s, m, r) ==
    IsFinite(r)
    /\ r[1] * (gain[2] * s[2] * m[2])
           = gain[1] * (s[1] * m[2] - m[1] * s[2]) * r[2]

C6_Step(k) ==
    LET cl == calls[k]
    IN  /\ IF AllFinite({cl.pre.gain, cl.setpoint, cl.measurement})
           THEN ScaledError(cl.pre.gain, cl.setpoint, cl.measurement, cl.ret)
           ELSE cl.ret = FMul(cl.pre.gain, FSub(cl.setpoint, cl.measurement))
        /\ \A dur \in Durations :
              Proportional_update(cl.pre, cl.setpoint, cl.measurement, dur)
                  = cl.ret
        /\ \A j \in CallIndices :
              (calls[j].setpoint = cl.setpoint
                   /\ calls[j].measurement = cl.measurement)
              => calls[j].ret = cl.ret
        /\ After(k, p) = cl.pre

\* C6: Proportional.update(s, m, duration) returns gain * (s - m), the same
\* for every sample duration and after any earlier update or init calls, and
\* leaves the gain unchanged.
C6_ProportionalDeterminism == \A k \in CallIndices : C6_Step(k)

\* Two calls with the same setpoint and measurement and different sample
\* durations returned the same non-zero gain * (s - m), after an init that
\* followed an earlier update.
C6_Witness ==
    /\ reinit
    /\ Len(calls) = 2
    /\ p.gain = <<-2, 1>>
    /\ calls[1].setpoint = <<-3, 2>> /\ calls[2].setpoint = <<-3, 2>>
    /\ calls[1].measurement = <<5, 2>> /\ calls[2].measurement = <<5, 2>>
    /\ calls[1].sample_time = 0 /\ calls[2].sample_time = 1000
    /\ calls[1].ret = <<8, 1>> /\ calls[2].ret = <<8, 1>>

---------------------------------------------------------------------------
(* Controller: C2, C3, C7, C10 (checked under SpecC) *)

\* C2: with start <= end, the output every Controller.update returns is the
\* stored output, never exceeds output_limit.end and never falls below
\* output_limit.start, whatever the gains and the integrator's own limit; it
\* lies within the limit whenever p + i + d is not NaN.
C2_OutputBounded ==
    (Called /\ WellFormed(c.output_limit)) =>
        /\ LastCall.ret = c.out
        /\ ~FGt(c.out, c.output_limit.end)
        /\ ~FLt(c.out, c.output_limit.start)
        /\ ~IsNaN(LastCall.unclamped) => InRange(c.out, c.output_limit)

\* p + i + d exceeded the limit of [-10, 10] and the output is 10, while the
\* integrator sits at the bound of its own, different limit.
C2_Witness ==
    /\ Called
    /\ c.output_limit = Range(<<-10, 1>>, <<10, 1>>)
    /\ FGt(LastCall.unclamped, <<10, 1>>)
    /\ IsFinite(LastCall.unclamped)
    /\ c.out = <<10, 1>>
    /\ c.i.output_limit = Range(<<-1, 1>>, <<1, 1>>)
    /\ c.i.value = <<1, 1>>

\* A controller newly built with the configuration of self.
Fresh(self) ==
    Controller_new(self.output_limit, self.sample_time,
                   Proportional_new(self.p.gain),
                   Integrator_new(self.i.gain, self.i.output_limit),
                   Differentiator_new(self.d.gain, self.d.time_constant))

\* C3: after any history of updates, init followed by update(s, m) returns
\* what update(s, m) returns as the first call on a newly built controller
\* of the same configuration, and leaves the controller as it leaves that one.
C3_ResetEquivalence ==
    (reinit /\ Len(calls) = 1) =>
        LET first == Controller_update(Fresh(calls[1].pre), calls[1].setpoint,
                                       calls[1].measurement)
        IN  /\ calls[1].pre = Fresh(calls[1].pre)
            /\ calls[1].ret = first.out
            /\ c = first

\* The first update after an init that followed earlier updates, with every
\* term contributing.
C3_Witness ==
    /\ reinit
    /\ Len(calls) = 1
    /\ IsFinite(c.out) /\ c.out # zero
    /\ IsFinite(c.i.value) /\ c.i.value # zero
    /\ IsFinite(c.d.value) /\ c.d.value # zero

\* The integrator's accumulator before its clamp, in the last controller
\* update.
LastIntegratorSum ==
    Integrator_accumulate(LastCall.pre.i, LastCall.setpoint,
                          LastCall.measurement, LastCall.pre.sample_time).value

\* x is pinned to a bound of the malformed range r: end when the unclamped
\* value u exceeds end, start otherwise.
Pinned(x, u, r) == x = (IF FGt(u, r.end) THEN r.end ELSE r.start)

\* C7 as stated: with start > end, every value Integrator.update returns and
\* every output Controller.update returns equals the range's start or its
\* end.
C7_Original ==
    Called =>
        /\ Malformed(c.i.output_limit) =>
              c.i.value \in {c.i.output_limit.start, c.i.output_limit.end}
        /\ Malformed(c.output_limit) =>
              c.out \in {c.output_limit.start, c.output_limit.end}

\* C7 amended: with start > end, every value Integrator.update returns and
\* every output Controller.update returns whose unclamped value is not NaN
\* equals the range's end when the unclamped value exceeds end and its start
\* otherwise; an unclamped NaN is returned as NaN, equal to neither bound.
C7_MalformedRange ==
    Called =>
        /\ Malformed(c.i.output_limit) =>
              IF IsNaN(LastIntegratorSum)
              THEN IsNaN(c.i.value)
              ELSE Pinned(c.i.value, LastIntegratorSum, c.i.output_limit)
        /\ Malformed(c.output_limit) =>
              IF IsNaN(LastCall.unclamped)
              THEN IsNaN(c.out)
              ELSE Pinned(c.out, LastCall.unclamped, c.output_limit)

\* Both ranges malformed; the integrator pinned to its end and the output to
\* the controller's start.
C7_Witness ==
    /\ Called
    /\ Malformed(c.i.output_limit)
    /\ Malformed(c.output_limit)
    /\ IsFinite(LastIntegratorSum)
    /\ FGt(LastIntegratorSum, c.i.output_limit.end)
    /\ c.i.value = c.i.output_limit.end
    /\ IsFinite(LastCall.unclamped)
    /\ ~FGt(LastCall.unclamped, c.output_limit.end)
    /\ c.out = c.output_limit.start

\* C10: Controller.update(s, m) advances each term exactly once with s, m
\* and the controller's sample_time, and returns and stores
\* clamp(p + i + d) into the controller's output_limit, i being the
\* integrator's value after its own clamp; the controller's clamp leaves the
\* integrator's accumulated value alone and the result does not depend on the
\* output stored before.
C10_Composition ==
    \A k \in CallIndices :
        LET cl == calls[k]
            pre == cl.pre
            post == After(k, c)
            pv == Proportional_update(pre.p, cl.setpoint, cl.measurement,
                                      pre.sample_time)
            iv == Integrator_update(pre.i, cl.setpoint, cl.measurement,
                                    pre.sample_time)
            dv == Differentiator_update(pre.d, cl.setpoint, cl.measurement,
                                        pre.sample_time)
        IN  /\ post.p = pre.p
            /\ post.i = iv
            /\ post.d = dv
            /\ InRange(iv.value, pre.i.output_limit)
                   \/ Malformed(pre.i.output_limit) \/ IsNaN(iv.value)
            /\ cl.unclamped = FAdd(FAdd(pv, iv.value), dv.value)
            /\ cl.ret = ClampTo(cl.unclamped, pre.output_limit)
            /\ post.out = cl.ret
            /\ post.output_limit = pre.output_limit
            /\ post.sample_time = pre.sample_time
            /\ \A x \in {<<7, 1>>, NaN} :
                  Controller_update([pre EXCEPT !.out = x], cl.setpoint,
                                    cl.measurement) = post

\* A second update in which both clamps acted: the integrator was clamped to
\* its own limit, the sum was clamped to the controller's, and the stored
\* output before the call was not zero.
C10_Witness ==
    /\ Len(calls) = 2
    /\ calls[2].pre.out # zero
    /\ WellFormed(c.output_limit) /\ WellFormed(c.i.output_limit)
    /\ c.i.output_limit # c.output_limit
    /\ IsFinite(LastIntegratorSum) /\ LastIntegratorSum # c.i.value
    /\ IsFinite(LastCall.unclamped) /\ LastCall.unclamped # c.out
    /\ c.d.value # zero
    /\ c.i.value # c.out

====
